---------------------------- MODULE Spec2Model ----------------------------
(***************************************************************************)
(* State-machine model of the vehicle control runtime:                     *)
(*   main.py                VehicleController (the Supervisor)             *)
(*   hardware/processes.py  LiDARProcess, MotorProcess, CameraProcess,     *)
(*                          ExplorerProcess (the workers)                  *)
(* Speeds are integers in tenths (10 = 1.0); distances are integers in     *)
(* millimetres; angles are integers in degrees.                            *)
(***************************************************************************)
EXTENDS Integers, Sequences, FiniteSets, TLC

(***************************** bounds ***************************************)
\* Explorer processes that may be created in one run.
MaxExplorers == 2
\* Items the command channel may hold (the channels of the program are unbounded).
MaxQueue == 2
\* Items the scan channel and the snapshot channel may each hold.
MaxBuffered == 1
\* Requests that may be suspended at `await request.json()` per handler.
MaxPending == 1
\* LiDAR failures counted by the observer counter lidar.failures.
MaxFailures == 6
\* Scan batches one Explorer may process.
MaxSteps == 1

(************************ program constants *********************************)
\* LiDARProcess.__init__: self.max_retries, self.min_quality
max_retries == 5
min_quality == 15
\* 1.0 in tenths (the limits of _validate_speed)
SpeedUnit == 10
\* ExplorerConfig, in tenths / millimetres / cells
TURN_SPEED == 3
FORWARD_SPEED == 5
MIN_DISTANCE == 300
MAP_SIZE == 1000
\* ExplorerProcess.run: orientation = (orientation + 5) % 360
TURN_STEP == 5
\* ExplorerProcess.run: nearest = float('inf'), above every distance in mm
INF == 1000000000

VARIABLES
    started,          \* VehicleController.start() has run
    stop_event,       \* VehicleController.stop_event (multiprocessing.Event)
    mode,             \* VehicleController.mode
    processes,        \* processes['explorer']: id of the Explorer, 0 = no key
    created,          \* number of ExplorerProcess objects constructed so far
    data_queue,       \* snapshot channel
    scan_queue,       \* scan channel
    motor_queue,      \* command channel
    latest_frame,     \* <<>> = None, <<f>> = a frame
    latest_map,       \* <<>> = None, <<m>> = a map
    latest_position,  \* <<>> = None, <<p>> = a position record
    controlPending,   \* handle_control calls suspended at await request.json()
    modePending,      \* handle_mode calls suspended at await request.json()
    stopping,         \* stop(): keys of self.processes still to be joined
    emergency,        \* handle_emergency is between its put and its terminate()
    lastOp,           \* the handler that completed in the last step, and its answer
    lidar,            \* LiDARProcess: run()'s locals and position
    camera,           \* CameraProcess
    motor,            \* MotorProcess
    explorers         \* ExplorerProcess objects, by id

vars == <<started, stop_event, mode, processes, created, data_queue, scan_queue,
          motor_queue, latest_frame, latest_map, latest_position, controlPending,
          modePending, stopping, emergency, lastOp, lidar, camera, motor, explorers>>

ExplorerIds == 1..MaxExplorers

(***************************** helpers ***************************************)
Last(s) == s[Len(s)]

\* multiprocessing.Process.is_alive(): started and not yet finished
is_alive(p) == p.st = "running"

\* terminate() has no effect
NotTerminated(p) == p

\* Process.terminate(): SIGTERM; no worker installs a handler, so the process
\* dies where it stands and none of its remaining statements run.
terminate(p) == IF is_alive(p) THEN [p EXCEPT !.st = "terminated"] ELSE p

\* The body of a request: kind is "ok"/"badjson"/"nokey" for /control and the
\* requested mode for /mode.
Body(kind, l, r) == [kind |-> kind, left |-> l, right |-> r]
NoBody == Body("", 0, 0)
NoOp == [op |-> "none", status |-> 0, text |-> "", body |-> NoBody]
Resp(op, status, text, body) ==
    [op |-> op, status |-> status, text |-> text, body |-> body]

\* Items of the command channel. src records who put the item.
MoveCmd(l, r, src) == [cmd |-> "move", left |-> l, right |-> r, src |-> src]
StopCmd(src) == [cmd |-> "emergency_stop", left |-> 0, right |-> 0, src |-> src]

\* Queue.put on a channel; Room caps the length of the unbounded channel.
Room(q) == Len(q) < MaxQueue
RoomData(q) == Len(q) < MaxBuffered
put(q, item) == Append(q, item)

InitExplorer ==
    [st |-> "initial", pc |-> "new", position |-> <<MAP_SIZE \div 2, MAP_SIZE \div 2>>,
     orientation |-> 0, map_data |-> {}, nearest |-> INF, steps |-> 0]

Init ==
    /\ started = FALSE
    /\ stop_event = FALSE
    /\ mode = "manual"
    /\ processes = 0
    /\ created = 0
    /\ data_queue = <<>>
    /\ scan_queue = <<>>
    /\ motor_queue = <<>>
    /\ latest_frame = <<>>
    /\ latest_map = <<>>
    /\ latest_position = <<>>
    /\ controlPending = 0
    /\ modePending = 0
    /\ stopping = <<>>
    /\ emergency = FALSE
    /\ lastOp = NoOp
    /\ lidar = [st |-> "initial", pc |-> "new", retry_count |-> 0, lidar |-> FALSE,
                leaked |-> FALSE, failures |-> 0, sinceOk |-> 0, scan |-> <<>>]
    /\ camera = [st |-> "initial", pc |-> "new", camera |-> FALSE, active |-> FALSE]
    /\ motor = [st |-> "initial", pc |-> "new", pins |-> FALSE, lines |-> <<>>,
                released |-> FALSE, error |-> ""]
    /\ explorers = [i \in ExplorerIds |-> InitExplorer]

\* The event loop serves requests once start() has run and while it is not
\* blocked inside stop()'s process.join(timeout=5) or inside handle_emergency,
\* which has no await.
Serving == started /\ stopping = <<>> /\ ~emergency

(****************************** Supervisor ***********************************)
\* VehicleController.start: process.start() for lidar, camera, motor
start ==
    /\ ~started
    /\ started' = TRUE
    /\ lidar' = [lidar EXCEPT !.st = "running", !.pc = "while"]
    /\ camera' = [camera EXCEPT !.st = "running", !.pc = "setup"]
    /\ motor' = [motor EXCEPT !.st = "running", !.pc = "init"]
    /\ lastOp' = Resp("start", 200, "", NoBody)
    /\ UNCHANGED <<stop_event, mode, processes, created, data_queue, scan_queue,
                   motor_queue, latest_frame, latest_map, latest_position,
                   controlPending, modePending, stopping, emergency, explorers>>


\* _validate_speed without its lower limit
ValidateUpperOnly(speed) == speed <= SpeedUnit

\* VehicleController._validate_speed: -1.0 <= speed <= 1.0
_validate_speed(speed) == -SpeedUnit <= speed /\ speed <= SpeedUnit

\* Speeds an external caller may submit (tenths): in range, on the limits, outside.
ExtSpeeds == {-11, 3, 11}
ControlBodies ==
    {Body("ok", l, r) : l \in ExtSpeeds, r \in ExtSpeeds}
        \cup {Body(k, 0, 0) : k \in {"badjson", "nokey"}}
ModeBodies == {"manual", "explore", "invalid", "badjson"}

\* handle_control, up to `await request.json()`: the mode check is made first.
handle_control_begin ==
    /\ Serving
    /\ IF mode # "manual"
       THEN /\ lastOp' = Resp("control", 400, "Not in manual mode", NoBody)
            /\ UNCHANGED controlPending
       ELSE /\ controlPending < MaxPending
            /\ controlPending' = controlPending + 1
            /\ lastOp' = NoOp
    /\ UNCHANGED <<started, stop_event, mode, processes, created, data_queue,
                   scan_queue, motor_queue, latest_frame, latest_map,
                   latest_position, modePending, stopping, emergency, lidar, camera, motor,
                   explorers>>

\* What handle_control answers for a body once request.json() has returned.
ControlAnswer(body) ==
    IF body.kind = "badjson" THEN Resp("control", 400, "Invalid speed format", body)
    ELSE IF body.kind = "nokey" THEN Resp("control", 500, "KeyError", body)
    ELSE IF ~(_validate_speed(body.left) /\ _validate_speed(body.right))
         THEN Resp("control", 400, "Invalid speed values", body)
    ELSE Resp("control", 200, "OK", body)

\* handle_control, from the return of `await request.json()` to the response.
handle_control_end(body) ==
    /\ Serving
    /\ controlPending > 0
    /\ controlPending' = controlPending - 1
    /\ lastOp' = ControlAnswer(body)
    /\ IF ControlAnswer(body).status = 200
       THEN /\ Room(motor_queue)
            /\ motor_queue' = put(motor_queue, MoveCmd(body.left, body.right, "control"))
       ELSE UNCHANGED motor_queue
    /\ UNCHANGED <<started, stop_event, mode, processes, created, data_queue,
                   scan_queue, latest_frame, latest_map, latest_position,
                   modePending, stopping, emergency, lidar, camera, motor, explorers>>

\* handle_mode, suspended at `await request.json()` (its first statement).
handle_mode_begin ==
    /\ Serving
    /\ modePending < MaxPending
    /\ modePending' = modePending + 1
    /\ lastOp' = NoOp
    /\ UNCHANGED <<started, stop_event, mode, processes, created, data_queue,
                   scan_queue, motor_queue, latest_frame, latest_map,
                   latest_position, controlPending, stopping, emergency, lidar, camera,
                   motor, explorers>>

\* ExplorerProcess(...).start(): the new process enters run() and its loop.
StartedExplorer == [InitExplorer EXCEPT !.st = "running", !.pc = "while"]

\* handle_mode, explore branch (lines 146-150): construct, record, start.
AttachExplorer ==
    /\ created < MaxExplorers
    /\ created' = created + 1
    /\ processes' = created + 1
    /\ explorers' = [explorers EXCEPT ![created + 1] = StartedExplorer]

\* An Explorer that has ended: its memory (pose, grid) is gone with the process.
Ended(e, st) == [InitExplorer EXCEPT !.st = st, !.pc = "done"]

\* terminate() of an Explorer
terminateExplorer(e) == IF is_alive(e) THEN Ended(e, "terminated") ELSE e

\* the key is deleted and the process is left running
DetachWithoutTerminate ==
    /\ processes' = 0
    /\ UNCHANGED <<explorers, created>>

\* terminate(), join(), del self.processes['explorer'] (lines 152-155, 168-171)
DetachExplorer ==
    /\ IF processes # 0
       THEN explorers' = [explorers EXCEPT ![processes] = terminateExplorer(@)]
       ELSE UNCHANGED explorers
    /\ processes' = 0
    /\ UNCHANGED created

\* the requested mode is never taken for the current one
NeverSameMode(new_mode) == FALSE

\* line 143: new_mode == self.mode
SameMode(new_mode) == new_mode = mode

\* handle_mode, from the return of `await request.json()` to the response.
handle_mode_end(new_mode) ==
    /\ Serving
    /\ modePending > 0
    /\ modePending' = modePending - 1
    /\ IF new_mode = "badjson"
       THEN /\ lastOp' = Resp("mode", 500, "JSONDecodeError", Body(new_mode, 0, 0))
            /\ UNCHANGED <<mode, processes, created, explorers>>
       ELSE IF new_mode \notin {"manual", "explore"}
       THEN /\ lastOp' = Resp("mode", 400, "Invalid mode", Body(new_mode, 0, 0))
            /\ UNCHANGED <<mode, processes, created, explorers>>
       ELSE IF SameMode(new_mode)
       THEN /\ lastOp' = Resp("mode", 200, "Mode unchanged", Body(new_mode, 0, 0))
            /\ UNCHANGED <<mode, processes, created, explorers>>
       ELSE /\ IF new_mode = "explore" THEN AttachExplorer ELSE DetachExplorer
            /\ mode' = new_mode
            /\ lastOp' = Resp("mode", 200, "Mode changed", Body(new_mode, 0, 0))
    /\ UNCHANGED <<started, stop_event, data_queue, scan_queue, motor_queue,
                   latest_frame, latest_map, latest_position, controlPending,
                   stopping, emergency, lidar, camera, motor>>

\* the stop command is not forwarded
ForwardNothing(q) == q

\* handle_emergency, line 167: self.motor_queue.put(('emergency_stop', None))
ForwardStop(q) == put(q, StopCmd("emergency"))

\* handle_emergency, lines 166-167: the put.  The handler has no await, so no
\* other handler runs before its response, but the workers are processes of
\* their own: with an Explorer recorded, the Explorer runs on between the put
\* and terminate() (line 169).  With none recorded the handler only has
\* line 172 left and completes here.
handle_emergency ==
    /\ Serving
    /\ Room(motor_queue)
    /\ motor_queue' = ForwardStop(motor_queue)
    /\ IF processes = 0
       THEN /\ mode' = "manual"
            /\ lastOp' = Resp("emergency", 200, "Emergency stop activated", NoBody)
            /\ UNCHANGED emergency
       ELSE /\ emergency' = TRUE
            /\ lastOp' = NoOp
            /\ UNCHANGED mode
    /\ UNCHANGED <<started, stop_event, processes, created, data_queue,
                   scan_queue, latest_frame, latest_map, latest_position,
                   controlPending, modePending, stopping, lidar, camera, motor,
                   explorers>>

\* handle_emergency, lines 168-173: terminate(), join(), del, mode, response.
handle_emergency_end ==
    /\ emergency
    /\ emergency' = FALSE
    /\ DetachExplorer
    /\ mode' = "manual"
    /\ lastOp' = Resp("emergency", 200, "Emergency stop activated", NoBody)
    /\ UNCHANGED <<started, stop_event, data_queue, scan_queue, motor_queue,
                   latest_frame, latest_map, latest_position, controlPending,
                   modePending, stopping, lidar, camera, motor>>

\* The keys of self.processes, in insertion order.
ProcessKeys ==
    IF processes = 0 THEN <<"lidar", "camera", "motor">>
    ELSE <<"lidar", "camera", "motor", "explorer">>

\* The process object self.processes[key].
Proc(key) ==
    CASE key = "lidar" -> lidar
      [] key = "camera" -> camera
      [] key = "motor" -> motor
      [] OTHER -> explorers[processes]

\* stop(), lines 79-80: set the cancellation signal, enter the join loop.
stop_begin ==
    /\ Serving
    /\ stop_event' = TRUE
    /\ stopping' = ProcessKeys
    /\ lastOp' = Resp("stop_begin", 0, IF stop_event THEN "repeated" ELSE "first", NoBody)
    /\ UNCHANGED <<started, mode, processes, created, data_queue, scan_queue,
                   motor_queue, latest_frame, latest_map, latest_position,
                   controlPending, modePending, emergency, lidar, camera, motor,
                   explorers>>

\* lastOp while stop() runs: its invocation, until a worker takes a step; then,
\* with the last process joined, its completion.
StopDone ==
    IF Len(stopping) = 1 THEN Resp("stop", 200, lastOp.text, NoBody) ELSE lastOp

\* stop(), lines 82-88, one process: join(timeout=5) returned because the
\* process has ended.
stop_join ==
    /\ stopping # <<>>
    /\ ~is_alive(Proc(Head(stopping)))
    /\ stopping' = Tail(stopping)
    /\ lastOp' = StopDone
    /\ UNCHANGED <<started, stop_event, mode, processes, created, data_queue,
                   scan_queue, motor_queue, latest_frame, latest_map,
                   latest_position, controlPending, modePending, emergency, lidar,
                   camera, motor, explorers>>

\* stop(), lines 82-88, one process: join(timeout=5) timed out, is_alive()
\* is true, terminate().
stop_terminate ==
    /\ stopping # <<>>
    /\ is_alive(Proc(Head(stopping)))
    /\ LET key == Head(stopping) IN
        /\ lidar' = IF key = "lidar" THEN terminate(lidar) ELSE lidar
        /\ camera' = IF key = "camera" THEN terminate(camera) ELSE camera
        /\ motor' = IF key = "motor" THEN terminate(motor) ELSE motor
        /\ explorers' = IF key = "explorer"
                        THEN [explorers EXCEPT ![processes] = terminateExplorer(@)]
                        ELSE explorers
    /\ stopping' = Tail(stopping)
    /\ lastOp' = StopDone
    /\ UNCHANGED <<started, stop_event, mode, processes, created, data_queue,
                   scan_queue, motor_queue, latest_frame, latest_map,
                   latest_position, controlPending, modePending, emergency>>

\* the first value is kept
KeepFirst(old, item, tag) ==
    IF item.tag = tag /\ old = <<>> THEN <<item.data>> ELSE old

\* lines 98-101: the value of an item with this tag replaces the cached one.
Latest(old, item, tag) == IF item.tag = tag THEN <<item.data>> ELSE old

\* the position is taken from an item of any tag
PositionAnyTag(old, item) ==
    <<[x |-> item.position[1], y |-> item.position[2],
       orientation |-> item.orientation]>>

\* lines 100, 102-106: a map item's pose replaces the cached position.
LatestPosition(old, item) ==
    IF item.tag = "map"
    THEN <<[x |-> item.position[1], y |-> item.position[2],
            orientation |-> item.orientation]>>
    ELSE old

\* _process_data: one iteration of the poll loop that finds an item.
_process_data ==
    /\ Serving
    /\ data_queue # <<>>
    /\ LET item == Head(data_queue) IN
        /\ latest_frame' = Latest(latest_frame, item, "frame")
        /\ latest_map' = Latest(latest_map, item, "map")
        /\ latest_position' = LatestPosition(latest_position, item)
    /\ data_queue' = Tail(data_queue)
    /\ lastOp' = NoOp
    /\ UNCHANGED <<started, stop_event, mode, processes, created, scan_queue,
                   motor_queue, controlPending, modePending, stopping, emergency, lidar,
                   camera, motor, explorers>>


\* get_map, lines 184-188: `if self.latest_map is not None`, else 404.
get_map ==
    IF latest_map # <<>> THEN Resp("map", 200, "", NoBody)
    ELSE Resp("map", 404, "No map data available", NoBody)

\* get_position, lines 190-194: `if self.latest_position` (a dict of three
\* keys is true), else 404.
get_position ==
    IF latest_position # <<>> THEN Resp("position", 200, "", NoBody)
    ELSE Resp("position", 404, "No position data available", NoBody)

\* get_status, lines 200-209: the mode and each worker's liveness.
get_status ==
    [mode |-> mode,
     camera_active |-> is_alive(camera),
     lidar_active |-> is_alive(lidar),
     motor_active |-> is_alive(motor),
     explorer_active |-> IF processes # 0 THEN is_alive(explorers[processes]) ELSE FALSE]

(**************************** LiDARProcess ***********************************)
\* lidar.pc: "while" = at the loop condition (line 88), "connecting" = inside
\* _init_lidar (line 91), "streaming" = inside `for scan in lidar.iter_scans()`
\* (line 95), "backoff" = time.sleep(self.retry_delay) (line 113), "done" = run()
\* has returned.  lidar.lidar = the local `lidar` is not None.  lidar.leaked = a
\* device that _init_lidar acquired was dropped without _cleanup_lidar.
\* lidar.scan = the raw scan iter_scans last yielded (the loop variable `scan`,
\* line 95), <<>> once the for loop is left and the value is dead.
\* Observer counters: failures = exceptions caught by run() so far, sinceOk =
\* exceptions caught since _init_lidar last returned.

\* Raw readings (quality, angle in degrees, distance in mm) of one revolution.
RawScans ==
    { << <<15, 0, 200>> >>,
      << <<15, 0, 1000>>, <<14, 45, 500>>, <<47, 90, 1000>> >>,
      << <<14, 0, 200>> >> }

\* the reading must exceed the minimum
PassesStrict(quality) == quality > min_quality

\* line 64: quality >= self.min_quality
Passes(quality) == quality >= min_quality

\* LiDARProcess._process_scan: keep the readings with quality >= min_quality,
\* as (angle, distance/1000.0); a distance in metres is held in thousandths of
\* a metre, so raw/1000.0 m is the raw number of thousandths.
RECURSIVE _process_scan(_)
_process_scan(scan_data) ==
    IF scan_data = <<>> THEN <<>>
    ELSE LET r == Head(scan_data)
             rest == _process_scan(Tail(scan_data))
         IN IF Passes(r[1]) THEN << <<r[2], r[3]>> >> \o rest ELSE rest

\* LiDARProcess._cleanup_lidar(lidar): teardown when lidar is not None.
_cleanup_lidar(l) == [l EXCEPT !.lidar = FALSE]

\* the counter is left as it is
SameRetry(retry_count) == retry_count

\* run(), line 107
NextRetry(retry_count) == retry_count + 1

\* run(), lines 105-116: the except block.
LidarExcept(l) ==
    LET rc == NextRetry(l.retry_count)
        c == _cleanup_lidar(l)
    IN [c EXCEPT !.retry_count = rc,
                 !.scan = <<>>,
                 !.failures = @ + 1,
                 !.sinceOk = @ + 1,
                 !.pc = IF rc < max_retries THEN "backoff" ELSE "final"]

lidarOnly == <<started, stop_event, mode, processes, created, data_queue,
               motor_queue, latest_frame, latest_map, latest_position,
               controlPending, modePending, stopping, emergency, camera, motor, explorers>>

\* run(), line 88: the loop condition, then line 90.
LidarWhile ==
    /\ is_alive(lidar) /\ lidar.pc = "while"
    /\ lidar' = [lidar EXCEPT !.pc =
                    IF stop_event \/ lidar.retry_count >= max_retries THEN "final"
                    ELSE IF lidar.lidar THEN "streaming" ELSE "connecting"]
    /\ lastOp' = NoOp
    /\ UNCHANGED <<lidarOnly, scan_queue>>

\* run(), lines 91-93: _init_lidar returned a device.
LidarConnectOk ==
    /\ is_alive(lidar) /\ lidar.pc = "connecting"
    /\ lidar' = [lidar EXCEPT !.lidar = TRUE, !.retry_count = 0, !.sinceOk = 0,
                              !.pc = "streaming"]
    /\ lastOp' = NoOp
    /\ UNCHANGED <<lidarOnly, scan_queue>>

\* _init_lidar raised (lines 54-56): in RPLidar(...) itself (acquired = FALSE)
\* or in a later call on the device it had opened (acquired = TRUE).  The
\* device is a local of _init_lidar; run()'s `lidar` is still None.
LidarConnectFail(acquired) ==
    /\ is_alive(lidar) /\ lidar.pc = "connecting"
    /\ lidar.failures < MaxFailures
    /\ lidar' = [LidarExcept(lidar) EXCEPT !.leaked = @ \/ acquired]
    /\ lastOp' = NoOp
    /\ UNCHANGED <<lidarOnly, scan_queue>>

\* run(), lines 95-103: iter_scans yielded one scan.
LidarScan(raw) ==
    /\ is_alive(lidar) /\ lidar.pc = "streaming"
    /\ IF stop_event
       THEN /\ lidar' = [lidar EXCEPT !.pc = "while", !.scan = <<>>]
            /\ UNCHANGED scan_queue
       ELSE /\ lidar' = [lidar EXCEPT !.scan = raw]
            /\ LET processed_scan == _process_scan(raw) IN
                IF processed_scan # <<>>
                THEN /\ RoomData(scan_queue)
                     /\ scan_queue' = put(scan_queue, processed_scan)
                ELSE UNCHANGED scan_queue
    /\ lastOp' = NoOp
    /\ UNCHANGED lidarOnly

\* run(), lines 95-109: iter_scans (or the loop body) raised.
LidarStreamFail ==
    /\ is_alive(lidar) /\ lidar.pc = "streaming"
    /\ lidar.failures < MaxFailures
    /\ lidar' = LidarExcept(lidar)
    /\ lastOp' = NoOp
    /\ UNCHANGED <<lidarOnly, scan_queue>>

\* run(), line 113: the backoff sleep ends.
LidarBackoff ==
    /\ is_alive(lidar) /\ lidar.pc = "backoff"
    /\ lidar' = [lidar EXCEPT !.pc = "while"]
    /\ lastOp' = NoOp
    /\ UNCHANGED <<lidarOnly, scan_queue>>

\* run(), lines 118-119: the final _cleanup_lidar(lidar), then run() returns.
LidarFinal ==
    /\ is_alive(lidar) /\ lidar.pc = "final"
    /\ lidar' = [_cleanup_lidar(lidar) EXCEPT !.pc = "done", !.st = "exited"]
    /\ lastOp' = NoOp
    /\ UNCHANGED <<lidarOnly, scan_queue>>


(**************************** MotorProcess ***********************************)
\* motor.pc: "init" = before _init_gpio returns (line 172), "loop" = in the
\* command loop (lines 175-186), "done" = run() has ended.  motor.pins = the
\* six lines are held; motor.lines = the levels last written to them
\* (left_fwd, left_bwd, left_en, right_fwd, right_bwd, right_en), <<>> while
\* none was written; motor.released = every line was released; motor.error =
\* the exception that ended run(), "" when run() returned.

\* The methods the class MotorProcess defines (lines 122-201).  run() also
\* calls self._set_motors and self._emergency_stop, which no class defines:
\* each such call raises AttributeError.
MotorMethods == {"__init__", "_init_gpio", "run"}

AllOff == <<0, 0, 0, 0, 0, 0>>

\* What the two missing methods would write, after the design text (Drive:
\* enable on iff |speed| > 0, forward on iff speed > 0, backward on iff
\* speed < 0; EmergencyStop: all six lines off).  Reached only if MotorMethods
\* holds the method.
_set_motors(left, right) ==
    <<IF left > 0 THEN 1 ELSE 0, IF left < 0 THEN 1 ELSE 0,
      IF left # 0 THEN 1 ELSE 0, IF right > 0 THEN 1 ELSE 0,
      IF right < 0 THEN 1 ELSE 0, IF right # 0 THEN 1 ELSE 0>>
_emergency_stop == AllOff

\* run(), lines 193-201: the finally block.  `self._emergency_stop(pins)` is
\* evaluated first; when it raises, the release loop below it is skipped and
\* the exception leaves run().
MotorFinally(m) ==
    IF ~m.pins THEN [m EXCEPT !.pc = "done", !.st = "exited"]
    ELSE IF "_emergency_stop" \in MotorMethods
    THEN [m EXCEPT !.lines = _emergency_stop, !.released = TRUE, !.pc = "done",
                   !.st = "exited"]
    ELSE [m EXCEPT !.error = "AttributeError", !.pc = "done", !.st = "exited"]

motorOnly == <<started, stop_event, mode, processes, created, data_queue,
               scan_queue, latest_frame, latest_map, latest_position,
               controlPending, modePending, stopping, emergency, lidar, camera, explorers>>

\* run(), line 172: _init_gpio returned the requested lines.
MotorInitOk ==
    /\ is_alive(motor) /\ motor.pc = "init"
    /\ motor' = [motor EXCEPT !.pins = TRUE, !.pc = "loop"]
    /\ lastOp' = NoOp
    /\ UNCHANGED <<motorOnly, motor_queue>>

\* the failure is propagated to the other workers through the shared event
MotorInitFailStopsAll ==
    /\ is_alive(motor) /\ motor.pc = "init"
    /\ motor' = MotorFinally(motor)
    /\ stop_event' = TRUE
    /\ lastOp' = NoOp
    /\ UNCHANGED <<started, mode, processes, created, data_queue, scan_queue,
                   motor_queue, latest_frame, latest_map, latest_position,
                   controlPending, modePending, stopping, emergency, lidar, camera, explorers>>

\* run(), line 172: _init_gpio raised; except (188-192), finally with pins None.
MotorInitFail ==
    /\ is_alive(motor) /\ motor.pc = "init"
    /\ motor' = MotorFinally(motor)
    /\ lastOp' = NoOp
    /\ UNCHANGED <<motorOnly, motor_queue>>

\* The method run() dispatches a command to (lines 180-184).
Handler(cmd) == IF cmd = "move" THEN "_set_motors" ELSE "_emergency_stop"

\* run(), lines 175-186: one iteration that finds a command.  The call of an
\* undefined method raises inside the try: except (188-192), then finally.
MotorCommand ==
    /\ is_alive(motor) /\ motor.pc = "loop"
    /\ ~stop_event
    /\ motor_queue # <<>>
    /\ motor_queue' = Tail(motor_queue)
    /\ LET c == Head(motor_queue) IN
        motor' = IF Handler(c.cmd) \in MotorMethods
                 THEN [motor EXCEPT !.lines =
                          IF c.cmd = "move" THEN _set_motors(c.left, c.right)
                          ELSE _emergency_stop]
                 ELSE MotorFinally(motor)
    /\ lastOp' = NoOp
    /\ UNCHANGED motorOnly

\* run(), line 175: the loop condition sees the cancellation signal; finally.
MotorLoopExit ==
    /\ is_alive(motor) /\ motor.pc = "loop"
    /\ stop_event
    /\ motor' = MotorFinally(motor)
    /\ lastOp' = NoOp
    /\ UNCHANGED <<motorOnly, motor_queue>>

(**************************** CameraProcess **********************************)
\* camera.pc: "setup" = lines 215-221, "loop" = lines 223-229, "done".
\* camera.camera = the local `camera` is bound; camera.active = the device was
\* started and not stopped.
Frames == {"f1", "f2"}

FrameItem(f) == [tag |-> "frame", data |-> f, position |-> <<0, 0>>, orientation |-> 0]

\* run(), lines 233-235: the finally block.
CameraFinally(c) ==
    [c EXCEPT !.active = IF c.camera THEN FALSE ELSE @, !.pc = "done",
              !.st = "exited"]

cameraOnly == <<started, stop_event, mode, processes, created, scan_queue,
                motor_queue, latest_frame, latest_map, latest_position,
                controlPending, modePending, stopping, emergency, lidar, motor, explorers>>

\* run(), lines 215-221: the camera is created, configured and started.
CameraSetupOk ==
    /\ is_alive(camera) /\ camera.pc = "setup"
    /\ camera' = [camera EXCEPT !.camera = TRUE, !.active = TRUE, !.pc = "loop"]
    /\ lastOp' = NoOp
    /\ UNCHANGED <<cameraOnly, data_queue>>

\* run(), lines 215-220 raised: in Picamera2() (bound = FALSE) or after it.
CameraSetupFail(bound) ==
    /\ is_alive(camera) /\ camera.pc = "setup"
    /\ camera' = CameraFinally([camera EXCEPT !.camera = bound])
    /\ lastOp' = NoOp
    /\ UNCHANGED <<cameraOnly, data_queue>>

\* run(), lines 223-229: the loop condition, then one capture.
CameraCapture(f, success) ==
    /\ is_alive(camera) /\ camera.pc = "loop"
    /\ IF stop_event
       THEN /\ camera' = CameraFinally(camera)
            /\ UNCHANGED data_queue
       ELSE /\ UNCHANGED camera
            /\ IF success
               THEN /\ RoomData(data_queue)
                    /\ data_queue' = put(data_queue, FrameItem(f))
               ELSE UNCHANGED data_queue
    /\ lastOp' = NoOp
    /\ UNCHANGED cameraOnly

\* run(), lines 224-232: capture or encoding raised; except, finally.
CameraFail ==
    /\ is_alive(camera) /\ camera.pc = "loop"
    /\ ~stop_event
    /\ camera' = CameraFinally(camera)
    /\ lastOp' = NoOp
    /\ UNCHANGED <<cameraOnly, data_queue>>


(*************************** ExplorerProcess *********************************)
\* explorers[i].pc: "while" = at the loop condition (line 252), "decide" = a
\* scan was taken and the for loop (257-266) has run, "publish" = the move was
\* put (268-274), "done" = run() has returned.  steps counts the scans taken.

\* cos(5k degrees) * 10000 for k = 0..18
CosTab == <<10000, 9962, 9848, 9659, 9397, 9063, 8660, 8192, 7660, 7071,
            6428, 5736, 5000, 4226, 3420, 2588, 1736, 872, 0>>

\* np.cos(np.radians(d)) * 10000 for d a multiple of 5
Cos10k(d) ==
    LET a == d % 360 IN
    IF a <= 90 THEN CosTab[(a \div 5) + 1]
    ELSE IF a <= 180 THEN -CosTab[((180 - a) \div 5) + 1]
    ELSE IF a <= 270 THEN -CosTab[((a - 180) \div 5) + 1]
    ELSE CosTab[((360 - a) \div 5) + 1]

\* np.sin(np.radians(d)) * 10000
Sin10k(d) == Cos10k(d + 270)

\* int(n / d) for d > 0: truncation toward zero
Trunc(n, d) == IF n >= 0 THEN n \div d ELSE -((-n) \div d)

\* lines 261-263: int(position + dist * cos(rad_angle) / RESOLUTION), with
\* dist = mm/1000 and RESOLUTION = 0.05: dist * c / 0.05 = mm * c10k / 500000
ProjectX(e, angle, dist) ==
    Trunc(e.position[1] * 500000 + dist * Cos10k(angle + e.orientation), 500000)
ProjectY(e, angle, dist) ==
    Trunc(e.position[2] * 500000 + dist * Sin10k(angle + e.orientation), 500000)

\* line 265
InGrid(x, y) == 0 <= x /\ x < MAP_SIZE /\ 0 <= y /\ y < MAP_SIZE

\* lines 255-259: nearest over the points with -30 <= angle <= 30
RECURSIVE Nearest(_, _)
Nearest(scan, nearest) ==
    IF scan = <<>> THEN nearest
    ELSE LET angle == Head(scan)[1]
             dist == Head(scan)[2]
         IN Nearest(Tail(scan),
                    IF -30 <= angle /\ angle <= 30 /\ dist < nearest
                    THEN dist ELSE nearest)

\* lines 261-266: the cells (x, y) the scan marks, map_data[y, x] = 1
Marked(e, scan) ==
    {c \in {<<ProjectX(e, scan[k][1], scan[k][2]),
              ProjectY(e, scan[k][1], scan[k][2])>> : k \in 1..Len(scan)} :
        InGrid(c[1], c[2])}

\* lines 273-274: position is an integer array, so `position[0] += 0.05 * cos`
\* stores int(position[0] + 0.05 * cos): c10k / 200000 added, then truncated.
Advance(p, c10k) == Trunc(p * 200000 + c10k, 200000)

MapItem(e) == [tag |-> "map", data |-> e.map_data, position |-> e.position,
               orientation |-> e.orientation]

explorerOnly == <<started, stop_event, mode, processes, created, latest_frame,
                  latest_map, latest_position, controlPending, modePending,
                  stopping, emergency, lidar, camera, motor>>

\* run(), lines 252-266: the loop finds a scan, takes it and maps it.
ExplorerGet(i) ==
    /\ is_alive(explorers[i]) /\ explorers[i].pc = "while"
    /\ ~stop_event
    /\ scan_queue # <<>>
    /\ explorers[i].steps < MaxSteps
    /\ LET scan == Head(scan_queue)
           e == explorers[i]
       IN explorers' = [explorers EXCEPT ![i] =
              [e EXCEPT !.nearest = Nearest(scan, INF),
                        !.map_data = @ \cup Marked(e, scan),
                        !.steps = @ + 1,
                        !.pc = "decide"]]
    /\ scan_queue' = Tail(scan_queue)
    /\ lastOp' = NoOp
    /\ UNCHANGED <<explorerOnly, motor_queue, data_queue>>

\* the orientation is advanced without the wrap
TurnNoWrap(orientation) == orientation + TURN_STEP

\* line 270: orientation = (orientation + 5) % 360
Turn(orientation) == (orientation + TURN_STEP) % 360

\* run(), lines 268-274: turn or go forward.
ExplorerDecide(i) ==
    /\ is_alive(explorers[i]) /\ explorers[i].pc = "decide"
    /\ Room(motor_queue)
    /\ LET e == explorers[i] IN
        IF e.nearest < MIN_DISTANCE
        THEN /\ motor_queue' = put(motor_queue, MoveCmd(-TURN_SPEED, TURN_SPEED, "explorer"))
             /\ explorers' = [explorers EXCEPT ![i] =
                    [e EXCEPT !.orientation = Turn(@),
                              !.nearest = INF,
                              !.pc = "publish"]]
        ELSE /\ motor_queue' = put(motor_queue, MoveCmd(FORWARD_SPEED, FORWARD_SPEED, "explorer"))
             /\ explorers' = [explorers EXCEPT ![i] =
                    [e EXCEPT !.position =
                                 <<Advance(e.position[1], Cos10k(e.orientation)),
                                   Advance(e.position[2], Sin10k(e.orientation))>>,
                              !.nearest = INF,
                              !.pc = "publish"]]
    /\ lastOp' = NoOp
    /\ UNCHANGED <<explorerOnly, scan_queue, data_queue>>

\* the iteration ends without the snapshot
ExplorerPublishNothing(i) ==
    /\ is_alive(explorers[i]) /\ explorers[i].pc = "publish"
    /\ explorers' = [explorers EXCEPT ![i].pc = "while"]
    /\ lastOp' = NoOp
    /\ UNCHANGED <<explorerOnly, scan_queue, motor_queue, data_queue>>

\* run(), lines 276-280: the map snapshot.
ExplorerPublish(i) ==
    /\ is_alive(explorers[i]) /\ explorers[i].pc = "publish"
    /\ RoomData(data_queue)
    /\ data_queue' = put(data_queue, MapItem(explorers[i]))
    /\ explorers' = [explorers EXCEPT ![i].pc = "while"]
    /\ lastOp' = NoOp
    /\ UNCHANGED <<explorerOnly, scan_queue, motor_queue>>

\* run(), lines 252 and 284-285: the loop condition sees the cancellation
\* signal; the process puts an emergency_stop and returns.
ExplorerExit(i) ==
    /\ is_alive(explorers[i]) /\ explorers[i].pc = "while"
    /\ stop_event
    /\ Room(motor_queue)
    /\ motor_queue' = put(motor_queue, StopCmd("explorer"))
    /\ explorers' = [explorers EXCEPT ![i] = Ended(@, "exited")]
    /\ lastOp' = NoOp
    /\ UNCHANGED <<explorerOnly, scan_queue, data_queue>>

(**************************** specifications *********************************)
SupervisorStep ==
    \/ start
    \/ handle_control_begin
    \/ \E body \in ControlBodies : handle_control_end(body)
    \/ handle_mode_begin
    \/ \E new_mode \in ModeBodies : handle_mode_end(new_mode)
    \/ handle_emergency
    \/ handle_emergency_end
    \/ _process_data

StopStep ==
    \/ stop_begin
    \/ stop_join
    \/ stop_terminate

LidarStep ==
    \/ LidarWhile
    \/ LidarConnectOk
    \/ \E acquired \in BOOLEAN : LidarConnectFail(acquired)
    \/ \E raw \in RawScans : LidarScan(raw)
    \/ LidarStreamFail
    \/ LidarBackoff
    \/ LidarFinal

MotorStep ==
    \/ MotorInitOk
    \/ MotorInitFail
    \/ MotorCommand
    \/ MotorLoopExit

CameraStep ==
    \/ CameraSetupOk
    \/ \E bound \in BOOLEAN : CameraSetupFail(bound)
    \/ \E f \in Frames, success \in BOOLEAN : CameraCapture(f, success)
    \/ CameraFail

ExplorerStep ==
    \E i \in ExplorerIds :
        \/ ExplorerGet(i)
        \/ ExplorerDecide(i)
        \/ ExplorerPublish(i)
        \/ ExplorerExit(i)

Next ==
    \/ SupervisorStep
    \/ StopStep
    \/ LidarStep
    \/ MotorStep
    \/ CameraStep
    \/ ExplorerStep

Spec == Init /\ [][Next]_vars

ModeScans == { << <<15, 0, 200>> >> }

\* Mode switching: the Supervisor's handlers and stop(), the Explorer, and a
\* RangeScanner that connects and streams without failing.  Drive and
\* ImageCapture take no step and the snapshot channel is not drained.
NextMode ==
    \/ start
    \/ handle_control_begin
    \/ \E body \in ControlBodies : handle_control_end(body)
    \/ handle_mode_begin
    \/ \E new_mode \in ModeBodies : handle_mode_end(new_mode)
    \/ handle_emergency
    \/ handle_emergency_end
    \/ StopStep
    \/ ExplorerStep
    \/ LidarWhile
    \/ LidarConnectOk
    \/ \E raw \in ModeScans : LidarScan(raw)
    \/ LidarFinal

SpecMode == Init /\ [][NextMode]_vars

\* The RangeScanner alone: start(), stop() and every step of LiDARProcess.
\* The other workers take no step (stop() ends them).
NextLidar ==
    \/ start
    \/ StopStep
    \/ LidarStep

SpecLidar == Init /\ [][NextLidar]_vars

\* Drive alone: start(), the handlers that put commands, stop() and every
\* step of MotorProcess.
NextDrive ==
    \/ start
    \/ handle_control_begin
    \/ \E body \in ControlBodies : handle_control_end(body)
    \/ handle_emergency
    \/ StopStep
    \/ MotorStep

SpecDrive == Init /\ [][NextDrive]_vars

\* Shutdown: start(), set-mode, stop() and the workers' steps from start-up
\* to exit.
NextShutdown ==
    \/ start
    \/ handle_mode_begin
    \/ \E new_mode \in ModeBodies : handle_mode_end(new_mode)
    \/ StopStep
    \/ LidarWhile
    \/ LidarConnectOk
    \/ \E raw \in ModeScans : LidarScan(raw)
    \/ LidarFinal
    \/ MotorInitOk
    \/ MotorInitFail
    \/ MotorCommand
    \/ MotorLoopExit
    \/ CameraStep
    \/ ExplorerStep

SpecShutdown == Init /\ [][NextShutdown]_vars

\* Raw readings (quality, angle, distance in mm) the Explorer is fed: a wall
\* ahead and one to the side at 1 m; an obstacle 0.2 m ahead; an obstacle
\* 0.2 m away 15 degrees to the right of the heading (345); two far readings,
\* 30 m ahead and 25.025 m behind.
ExploreScans ==
    { << <<15, 0, 1000>>, <<15, 90, 1000>> >>,
      << <<15, 0, 200>> >>,
      << <<15, 345, 200>> >>,
      << <<15, 0, 30000>>, <<15, 180, 25025>> >> }

\* Poses <<x, y, orientation>> the Explorer's loop reaches: its first pose;
\* the pose after 71 turns; the pose after 36 turns; and, 500 forward steps
\* along 180 degrees later, the pose on the grid's left edge facing outward.
ExplorePoses == {<<MAP_SIZE \div 2, MAP_SIZE \div 2, 0>>,
                 <<MAP_SIZE \div 2, MAP_SIZE \div 2, 355>>,
                 <<MAP_SIZE \div 2, MAP_SIZE \div 2, 180>>,
                 <<0, MAP_SIZE \div 2, 180>>}

\* The system after start() and set-mode(explore): the RangeScanner is
\* streaming, Drive holds its lines, the camera runs, and the Explorer is at
\* its loop condition (line 252) in one of ExplorePoses.
InitExplore ==
    /\ started = TRUE
    /\ stop_event = FALSE
    /\ mode = "explore"
    /\ processes = 1
    /\ created = 1
    /\ data_queue = <<>>
    /\ scan_queue = <<>>
    /\ motor_queue = <<>>
    /\ latest_frame = <<>>
    /\ latest_map = <<>>
    /\ latest_position = <<>>
    /\ controlPending = 0
    /\ modePending = 0
    /\ stopping = <<>>
    /\ emergency = FALSE
    /\ lastOp = NoOp
    /\ lidar = [st |-> "running", pc |-> "streaming", retry_count |-> 0,
                lidar |-> TRUE, leaked |-> FALSE, failures |-> 0, sinceOk |-> 0, scan |-> <<>>]
    /\ camera = [st |-> "running", pc |-> "loop", camera |-> TRUE, active |-> TRUE]
    /\ motor = [st |-> "running", pc |-> "loop", pins |-> TRUE, lines |-> <<>>,
                released |-> FALSE, error |-> ""]
    /\ \E pose \in ExplorePoses :
          explorers = [i \in ExplorerIds |->
              IF i = 1
              THEN [StartedExplorer EXCEPT !.position = <<pose[1], pose[2]>>,
                                           !.orientation = pose[3]]
              ELSE InitExplorer]

\* The Explorer's loop: scans arrive from the RangeScanner, the Explorer maps
\* them, decides and publishes; stop() sets the cancellation signal.
NextExplore ==
    \/ \E raw \in ExploreScans : LidarScan(raw)
    \/ ExplorerStep
    \/ StopStep

SpecExplore == InitExplore /\ [][NextExplore]_vars

\* The snapshot channel: the Explorer publishes maps, the camera publishes
\* frames, and the Supervisor's poll loop drains the channel.
NextSnapshot ==
    \/ \E raw \in ExploreScans : LidarScan(raw)
    \/ \E i \in ExplorerIds : ExplorerGet(i)
    \/ \E i \in ExplorerIds : ExplorerDecide(i)
    \/ \E i \in ExplorerIds : ExplorerPublish(i)
    \/ \E f \in Frames, success \in BOOLEAN : CameraCapture(f, success)
    \/ _process_data

SpecSnapshot == InitExplore /\ [][NextSnapshot]_vars

\* Worker failures: the three core workers run and may fail while the
\* Supervisor serves emergency-stop; the cancellation signal is never set.
NextFailure ==
    \/ start
    \/ handle_emergency
    \/ LidarWhile
    \/ LidarConnectOk
    \/ \E acquired \in BOOLEAN : LidarConnectFail(acquired)
    \/ \E raw \in ModeScans : LidarScan(raw)
    \/ LidarStreamFail
    \/ LidarBackoff
    \/ LidarFinal
    \/ MotorInitOk
    \/ MotorInitFail
    \/ MotorCommand
    \/ CameraStep

SpecFailure == Init /\ [][NextFailure]_vars

(******************************* claims ***************************************)
LiveExplorers == {i \in ExplorerIds : is_alive(explorers[i])}

ModeChangedTo(m) ==
    /\ lastOp.op = "mode" /\ lastOp.status = 200
    /\ lastOp.text = "Mode changed" /\ lastOp.body.kind = m

HoldsStop(q) == \E k \in 1..Len(q) : q[k].cmd = "emergency_stop"

\* C1: whenever set-mode(manual) has just completed an Explore->Manual switch,
\* an EmergencyStop has been forwarded: the command channel, which nothing
\* drains under SpecMode, holds one.
C1_ModeSwitchForwardsStop == ModeChangedTo("manual") => HoldsStop(motor_queue)

\* C2: whenever no handler is mid-execution, a Navigator is recorded as the
\* active navigator and running if and only if mode = Explore.
C2_ModeInvariant ==
    stopping = <<>> =>
        ((processes # 0 /\ is_alive(explorers[processes])) <=> mode = "explore")

\* C3: no reachable state has two live Explorer processes.
C3_AtMostOneExplorer == Cardinality(LiveExplorers) <= 1

\* C3 witness: a second Explorer runs after the first was attached and detached.
C3_Witness ==
    /\ created = 2
    /\ explorers[1].st = "terminated"
    /\ is_alive(explorers[2])
    /\ processes = 2

\* C5: when emergency stop has just completed, an EmergencyStop was forwarded
\* on the command channel (which nothing drains under SpecMode), no Explorer
\* handle is recorded, no Explorer is alive, and mode = Manual.
C5_EmergencyStop ==
    lastOp.op = "emergency" =>
        /\ lastOp.status = 200
        /\ \E k \in 1..Len(motor_queue) : motor_queue[k] = StopCmd("emergency")
        /\ processes = 0
        /\ LiveExplorers = {}
        /\ mode = "manual"

\* C5 witness: the scenario start, move(0.3, 0.3) accepted, set-mode(explore),
\* emergency stop: the accepted move and the stop are on the channel and the
\* Explorer that was attached has been terminated.
C5_Witness ==
    /\ lastOp.op = "emergency"
    /\ motor_queue = <<MoveCmd(3, 3, "control"), StopCmd("emergency")>>
    /\ created = 1
    /\ explorers[1].st = "terminated"

InRange(speed) == -SpeedUnit <= speed /\ speed <= SpeedUnit

C6_State ==
    /\ (lastOp.op = "control" /\ lastOp.body.kind = "ok"
          /\ ~(InRange(lastOp.body.left) /\ InRange(lastOp.body.right)))
        => lastOp.status = 400
    /\ \A k \in 1..Len(motor_queue) :
          motor_queue[k].cmd = "move"
            => InRange(motor_queue[k].left) /\ InRange(motor_queue[k].right)

C6_Step ==
    /\ mode = "explore" => controlPending' <= controlPending
    /\ (lastOp'.op = "control" /\ lastOp'.status # 200) => motor_queue' = motor_queue

\* C6: a submit-movement request with a speed outside [-1.0, 1.0] is answered
\* 400 whatever the mode; a request that arrives while mode = Explore does
\* not get past the mode check; a rejected request leaves the command channel
\* unchanged; every Move on the command channel has both speeds in range.
C6_CommandValidation == []C6_State /\ [][C6_Step]_vars

\* C6 witness: an out-of-range request that passed the mode check in Manual is
\* rejected after the mode has become Explore.
C6_Witness ==
    /\ lastOp.op = "control" /\ lastOp.status = 400
    /\ lastOp.body.kind = "ok"
    /\ mode = "explore"

\* C4: a Drive worker that has exited after acquiring the motor lines has set
\* all six lines off and released every line.
C4_DriveExitZeroesAndReleases ==
    (motor.st = "exited" /\ motor.pins) => (motor.lines = AllOff /\ motor.released)

AllDead ==
    /\ ~is_alive(lidar) /\ ~is_alive(camera) /\ ~is_alive(motor)
    /\ LiveExplorers = {}

C7_State ==
    /\ lastOp.op = "stop" =>
          /\ lastOp.status = 200
          /\ stop_event
          /\ stopping = <<>>
          /\ AllDead
    /\ stopping # <<>> => (stop_event /\ ENABLED StopStep)

C7_Step ==
    (stop_event /\ AllDead /\ (stopping # <<>> \/ stopping' # <<>>)) =>
        /\ stop_event'
        /\ <<lidar, camera, motor, explorers>>' = <<lidar, camera, motor, explorers>>
        /\ <<mode, processes, data_queue, scan_queue, motor_queue>>'
              = <<mode, processes, data_queue, scan_queue, motor_queue>>

\* C7: when shutdown has completed, the cancellation signal is set and no
\* worker (RangeScanner, ImageCapture, Drive, any Explorer) is alive; while
\* shutdown runs it can always take its next step, whatever the workers have
\* done; and a shutdown invoked when the signal is set and every worker has
\* ended changes no worker and no channel.
C7_ShutdownIdempotent == []C7_State /\ [][C7_Step]_vars

\* C7 witness: a second shutdown has completed, with a Navigator attached,
\* after Drive had ended by itself and the RangeScanner was ended by force.
C7_Witness ==
    /\ lastOp.op = "stop" /\ lastOp.text = "repeated"
    /\ processes # 0
    /\ motor.st = "exited"
    /\ lidar.st = "terminated"

C8_State ==
    /\ lidar.retry_count <= max_retries
    /\ lidar.sinceOk <= max_retries
    /\ lidar.pc \in {"connecting", "streaming", "backoff"} => lidar.sinceOk < max_retries
    /\ lidar.sinceOk = max_retries => lidar.pc \in {"final", "done"}

C8_Step ==
    /\ lidar'.failures = lidar.failures + 1 =>
          /\ lidar'.retry_count = lidar.retry_count + 1
          /\ lidar'.pc = IF lidar'.retry_count < max_retries THEN "backoff" ELSE "final"
    /\ lidar.pc = "backoff" => lidar'.pc \in {"backoff", "while"}
    /\ lidar.pc \in {"final", "done"} => lidar'.pc \in {"final", "done"}
    /\ (lidar.pc = "connecting" /\ lidar'.pc = "streaming") => lidar'.retry_count = 0

C9_TeardownAfterEveryFailure ==
    lidar.pc \in {"connecting", "done"} => ~lidar.leaked

\* C10: a worker that has left its loop and exited after the cancellation
\* signal was set has completed its teardown: the RangeScanner's device is
\* torn down, the camera is stopped, Drive's lines are off and released.
C10_TeardownOnCancellation ==
    stop_event =>
        /\ lidar.st = "exited" => (~lidar.lidar /\ ~lidar.leaked)
        /\ camera.st = "exited" => ~camera.active
        /\ (motor.st = "exited" /\ motor.pins) =>
              (motor.lines = AllOff /\ motor.released)

(* The Explorer, under SpecExplore. *)
ExplorerTook(i) == explorers[i].pc = "while" /\ explorers'[i].pc = "decide"
ExplorerDecided(i) == explorers[i].pc = "decide" /\ explorers'[i].pc = "publish"

\* The frontal cone of the design: within 30 degrees of the heading on either
\* side, for angles given in [0, 360).
InCone(angle) == angle <= 30 \/ angle >= 330
FrontalDists(scan) == {scan[k][2] : k \in {j \in 1..Len(scan) : InCone(scan[j][1])}}
MinOf(S) == CHOOSE d \in S : \A o \in S : d <= o
ConeNearest(scan) == IF FrontalDists(scan) = {} THEN INF ELSE MinOf(FrontalDists(scan))

\* C11: when the Explorer has taken a ScanBatch, its nearest is the least
\* distance among the points within 30 degrees of the heading on either side
\* (angles 0..30 and 330..360), and infinite when there is none.
C11_FrontalCone ==
    [][\A i \in ExplorerIds :
          ExplorerTook(i) => explorers'[i].nearest = ConeNearest(Head(scan_queue))]_vars

C12_State == \A i \in ExplorerIds :
    0 <= explorers[i].orientation /\ explorers[i].orientation < 360

C12_Step == \A i \in ExplorerIds :
    (ExplorerDecided(i) /\ explorers[i].nearest < MIN_DISTANCE) =>
        /\ motor_queue' = Append(motor_queue, MoveCmd(-TURN_SPEED, TURN_SPEED, "explorer"))
        /\ explorers'[i].orientation =
              IF explorers[i].orientation + TURN_STEP >= 360
              THEN explorers[i].orientation + TURN_STEP - 360
              ELSE explorers[i].orientation + TURN_STEP
        /\ explorers'[i].position = explorers[i].position

\* C12: with nearest < MIN_DISTANCE the Explorer puts exactly
\* Move(-TURN_SPEED, +TURN_SPEED), advances its orientation by the fixed step
\* wrapped modulo 360 and leaves its position unchanged; the orientation is in
\* [0, 360) in every reachable state.
C12_TurnDecision == []C12_State /\ [][C12_Step]_vars

\* C12 witness: a turn has wrapped the orientation from 355 to 0.
C12_Witness ==
    /\ explorers[1].pc = "publish"
    /\ explorers[1].orientation = 0
    /\ motor_queue # <<>>
    /\ Last(motor_queue) = MoveCmd(-TURN_SPEED, TURN_SPEED, "explorer")

\* C13: with nearest >= MIN_DISTANCE the Explorer puts exactly
\* Move(FORWARD_SPEED, FORWARD_SPEED), leaves its orientation unchanged, and
\* its stored position advances by the step 0.05 along the orientation
\* (positions compared in units of 1/200000 cell: 0.05 * cos = Cos10k/200000).
C13_ForwardDecision ==
    [][\A i \in ExplorerIds :
          (ExplorerDecided(i) /\ explorers[i].nearest >= MIN_DISTANCE) =>
              /\ motor_queue' = Append(motor_queue,
                                       MoveCmd(FORWARD_SPEED, FORWARD_SPEED, "explorer"))
              /\ explorers'[i].orientation = explorers[i].orientation
              /\ explorers'[i].position[1] * 200000 =
                    explorers[i].position[1] * 200000 + Cos10k(explorers[i].orientation)
              /\ explorers'[i].position[2] * 200000 =
                    explorers[i].position[2] * 200000 + Sin10k(explorers[i].orientation)]_vars

\* The projection of a point, in units of 1/500000 cell, before int().
NumX(e, p) == e.position[1] * 500000 + p[2] * Cos10k(p[1] + e.orientation)
NumY(e, p) == e.position[2] * 500000 + p[2] * Sin10k(p[1] + e.orientation)
Inside(n) == 0 <= n /\ n < MAP_SIZE * 500000
CellsInside(e, scan) ==
    {<<NumX(e, scan[k]) \div 500000, NumY(e, scan[k]) \div 500000>> :
        k \in {j \in 1..Len(scan) :
                  Inside(NumX(e, scan[j])) /\ Inside(NumY(e, scan[j]))}}

\* C14: taking a ScanBatch marks exactly the cells of the points that project
\* inside the grid; a point projecting outside it, coordinates strictly
\* between -1 and 0 included, changes no cell; no cell is ever cleared.
C14_ProjectionBounds ==
    [][\A i \in ExplorerIds :
          /\ ExplorerTook(i) =>
                explorers'[i].map_data =
                    explorers[i].map_data \cup CellsInside(explorers[i], Head(scan_queue))
          /\ (is_alive(explorers[i]) /\ is_alive(explorers'[i])) =>
                explorers[i].map_data \subseteq explorers'[i].map_data]_vars

\* C16: every item the Explorer has put on the command channel is a Move.
C16_ExplorerNeverStops ==
    \A k \in 1..Len(motor_queue) :
        motor_queue[k].src = "explorer" => motor_queue[k].cmd = "move"


(* The RangeScanner's filter, under SpecLidar. *)
GoodReading(r) == r[1] >= 15
Kept(raw) ==
    LET sel == SelectSeq(raw, GoodReading)
    IN [k \in 1..Len(sel) |-> <<sel[k][2], sel[k][3]>>]

C15_State == \A k \in 1..Len(scan_queue) : scan_queue[k] # <<>>

C15_Step ==
    (/\ lidar.pc = "streaming" /\ lidar'.pc = "streaming"
     /\ (lidar'.scan # lidar.scan \/ scan_queue' # scan_queue))
    => scan_queue' = IF Kept(lidar'.scan) = <<>> THEN scan_queue
                     ELSE Append(scan_queue, Kept(lidar'.scan))

\* C15: for every raw scan the RangeScanner reads, the ScanBatch it puts on
\* the scan channel holds, in the original order, exactly the readings with
\* quality >= 15, each as (angle, distance in thousandths of a metre = the raw
\* distance in mm); when no reading passes nothing is put, and no ScanBatch on
\* the channel is empty.
C15_QualityFilter == []C15_State /\ [][C15_Step]_vars

\* C15 witness: a scan with a rejected reading between two accepted ones was
\* read and its two accepted readings were put, in order.
C15_Witness ==
    /\ lidar.scan = << <<15, 0, 1000>>, <<14, 45, 500>>, <<47, 90, 1000>> >>
    /\ scan_queue # <<>>
    /\ Last(scan_queue) = << <<0, 1000>>, <<90, 1000>> >>


(* The latest-snapshot cache, under SpecSnapshot. *)
Drained == data_queue # <<>> /\ data_queue' = Tail(data_queue)
HoldsMap(q) == \E k \in 1..Len(q) : q[k].tag = "map"
PoseOf(e) == [x |-> e.position[1], y |-> e.position[2], orientation |-> e.orientation]

C17_Step ==
    /\ (Drained /\ Head(data_queue).tag = "frame") =>
          /\ latest_frame' = <<Head(data_queue).data>>
          /\ latest_map' = latest_map /\ latest_position' = latest_position
    /\ (Drained /\ Head(data_queue).tag = "map") =>
          /\ latest_map' = <<Head(data_queue).data>>
          /\ latest_position' = <<[x |-> Head(data_queue).position[1],
                                   y |-> Head(data_queue).position[2],
                                   orientation |-> Head(data_queue).orientation]>>
          /\ latest_frame' = latest_frame
    /\ ~Drained => <<latest_frame, latest_map, latest_position>>'
                      = <<latest_frame, latest_map, latest_position>>

C17_State ==
    (explorers[1].pc = "while" /\ explorers[1].steps > 0 /\ ~HoldsMap(data_queue)) =>
        /\ latest_map = <<explorers[1].map_data>>
        /\ latest_position = <<PoseOf(explorers[1])>>

C18_ModeConflictNoOp ==
    [][(lastOp'.op = "mode" /\ lastOp'.body.kind = mode) =>
          /\ lastOp'.status = 200
          /\ <<mode, processes, created, explorers, lidar, camera, motor>>'
                = <<mode, processes, created, explorers, lidar, camera, motor>>
          /\ <<stop_event, data_queue, scan_queue, motor_queue>>'
                = <<stop_event, data_queue, scan_queue, motor_queue>>]_vars

\* C18 witness: set-mode(explore) was answered while the mode was Explore and
\* the Explorer was running.
C18_Witness ==
    /\ lastOp.op = "mode" /\ lastOp.body.kind = "explore"
    /\ lastOp.text = "Mode unchanged"
    /\ mode = "explore"
    /\ processes # 0 /\ is_alive(explorers[processes])


(* Drive's dispatch, under SpecDrive. *)
SideLines(speed) ==
    <<IF speed > 0 THEN 1 ELSE 0, IF speed < 0 THEN 1 ELSE 0,
      IF speed # 0 THEN 1 ELSE 0>>

\* C19: when Drive takes a command from the head of the command channel, it
\* stays running and its six lines are, per side, forward on iff speed > 0,
\* backward on iff speed < 0, enable on iff speed # 0 for a Move, and all off
\* for an EmergencyStop; one command is taken per step.
C19_DriveDispatch ==
    [][(is_alive(motor) /\ motor_queue # <<>> /\ motor_queue' = Tail(motor_queue)) =>
          /\ is_alive(motor')
          /\ motor'.lines =
                IF Head(motor_queue).cmd = "move"
                THEN SideLines(Head(motor_queue).left) \o SideLines(Head(motor_queue).right)
                ELSE AllOff]_vars


(* Failure isolation, under SpecFailure. *)
Ends(p, q) == is_alive(p) /\ ~is_alive(q)
SupervisorState == <<started, stop_event, mode, processes, created, stopping,
                     latest_frame, latest_map, latest_position>>

C20_Step ==
    /\ Ends(lidar, lidar') =>
          <<camera, motor, explorers, SupervisorState>>'
              = <<camera, motor, explorers, SupervisorState>>
    /\ Ends(camera, camera') =>
          <<lidar, motor, explorers, SupervisorState>>'
              = <<lidar, motor, explorers, SupervisorState>>
    /\ Ends(motor, motor') =>
          <<lidar, camera, explorers, SupervisorState>>'
              = <<lidar, camera, explorers, SupervisorState>>

C20_State ==
    started =>
        /\ Serving /\ ~stop_event
        /\ get_status.lidar_active = (lidar.st \notin {"exited", "terminated"})
        /\ get_status.camera_active = (camera.st \notin {"exited", "terminated"})
        /\ get_status.motor_active = (motor.st \notin {"exited", "terminated"})

\* C20: the step in which a worker ends by its own failure changes no other
\* worker and nothing of the Supervisor; the Supervisor keeps serving, the
\* cancellation signal stays clear, and the status query reports a worker
\* inactive exactly when it has ended.
C20_FailureIsolation == []C20_State /\ [][C20_Step]_vars

\* C20 witness: Drive failed to acquire its lines and the RangeScanner
\* exhausted its retries, while the camera still runs and the Supervisor
\* serves.
C20_Witness ==
    /\ motor.st = "exited" /\ ~motor.pins
    /\ lidar.st = "exited" /\ lidar.retry_count = max_retries
    /\ is_alive(camera) /\ camera.pc = "loop"
    /\ Serving
    /\ get_status.motor_active = FALSE /\ get_status.camera_active = TRUE


(* Detach protocol and races of the handlers, under SpecMode. *)
Forwarded(q, r) == Len(r) = Len(q) + 1 /\ SubSeq(r, 1, Len(q)) = q

\* C21: in the step of a handler that clears the active-navigator reference,
\* the Navigator has been terminated and the EmergencyStop is forwarded after
\* the termination: the step ends with the Navigator not alive and puts an
\* EmergencyStop on the command channel.
C21_DetachProtocol ==
    [][(processes # 0 /\ processes' = 0) =>
          /\ ~is_alive(explorers'[processes])
          /\ Forwarded(motor_queue, motor_queue')
          /\ Last(motor_queue').cmd = "emergency_stop"]_vars

\* C22: at the instant an externally submitted Move is put on the command
\* channel, mode = Manual.
C22_NoExternalMoveInExplore ==
    [][(Forwarded(motor_queue, motor_queue') /\ Last(motor_queue').cmd = "move"
          /\ Last(motor_queue').src = "control") => mode = "manual"]_vars

IsEmergencyStop(c) == c = StopCmd("emergency")
IsExplorerMove(c) == c.cmd = "move" /\ c.src = "explorer"

\* C23: when the emergency-stop handler has just completed, no Move put by
\* the Explorer stands after the EmergencyStop it forwarded on the command
\* channel (which nothing drains under SpecMode).
C23_EmergencyStopIsFinal ==
    lastOp.op = "emergency" =>
        \A k \in 1..Len(motor_queue) :
            (/\ IsEmergencyStop(motor_queue[k])
             /\ \A j \in (k+1)..Len(motor_queue) : ~IsEmergencyStop(motor_queue[j]))
            => \A j \in (k+1)..Len(motor_queue) : ~IsExplorerMove(motor_queue[j])


(* The Explorer's output per ScanBatch, under SpecExplore (nothing drains the
   command channel or the snapshot channel there). *)
ExplorerMoves == Cardinality({k \in 1..Len(motor_queue) : IsExplorerMove(motor_queue[k])})
MapSnapshots == Cardinality({k \in 1..Len(data_queue) : data_queue[k].tag = "map"})

C24_State ==
    is_alive(explorers[1]) =>
        /\ ExplorerMoves =
              explorers[1].steps - (IF explorers[1].pc = "decide" THEN 1 ELSE 0)
        /\ MapSnapshots =
              explorers[1].steps
                 - (IF explorers[1].pc \in {"decide", "publish"} THEN 1 ELSE 0)

C24_Step ==
    /\ ExplorerTook(1) =>
          /\ scan_queue # <<>> /\ scan_queue' = Tail(scan_queue)
          /\ explorers'[1].steps = explorers[1].steps + 1
          /\ motor_queue' = motor_queue /\ data_queue' = data_queue
    /\ (is_alive(explorers[1]) /\ scan_queue = <<>> /\ explorers[1].pc = "while"
          /\ is_alive(explorers'[1])) =>
          /\ ExplorerMoves' = ExplorerMoves
          /\ MapSnapshots' = MapSnapshots
          /\ explorers'[1].pc = "while"

\* C24: the Explorer's Moves on the command channel and its map snapshots on
\* the snapshot channel both number the ScanBatches it has taken, less the
\* one in progress (the Move is put first, the snapshot second); taking a
\* ScanBatch removes it from the scan channel and puts nothing; with the scan
\* channel empty the Explorer at its loop condition puts nothing.
C24_OneMoveOneMapPerScan == []C24_State /\ [][C24_Step]_vars

\* C24 witness: the Explorer took a ScanBatch, put its Move and its map
\* snapshot, and is back at its loop condition.
C24_Witness ==
    /\ is_alive(explorers[1]) /\ explorers[1].pc = "while"
    /\ explorers[1].steps = 1
    /\ ExplorerMoves = 1 /\ MapSnapshots = 1


(* The cached map and position, under SpecSnapshot. *)
C25_State ==
    /\ (latest_map = <<>>) <=> (latest_position = <<>>)
    /\ (get_map.status = 404) <=> (get_position.status = 404)
    /\ (get_map.status = 404) <=> (latest_map = <<>>)

C25_Step ==
    /\ (latest_map' # latest_map \/ latest_position' # latest_position) =>
          /\ Drained /\ Head(data_queue).tag = "map"
    /\ (Drained /\ Head(data_queue).tag = "map") =>
          /\ latest_map' = <<Head(data_queue).data>>
          /\ latest_position' # <<>>
          /\ latest_position'[1].x = Head(data_queue).position[1]
          /\ latest_position'[1].y = Head(data_queue).position[2]
          /\ latest_position'[1].orientation = Head(data_queue).orientation

\* C25: the cached map is absent iff the cached position is absent, and
\* read-latest-map and read-latest-position answer 404 together, exactly
\* while no map is cached; map and position change only in the step that
\* drains a map item, and both are then taken from that item.
C25_MapAndPositionTogether == []C25_State /\ [][C25_Step]_vars

\* C25 witness: a frame and a map item were drained; both reads answer 200,
\* the position being that of an Explorer that had turned.
C25_Witness ==
    /\ latest_frame # <<>>
    /\ get_map.status = 200 /\ get_position.status = 200
    /\ latest_position[1].orientation # 0

=============================================================================
